---- MODULE Spec2Model ----
(***************************************************************************)
(* Model of the OD-pair analysis: the transfer-aware router and route      *)
(* summarizer of Code/calc_functions.py (find_fastest_route), the trip     *)
(* classification helpers of the same file, and the batch of Code/Main.py. *)
(*                                                                         *)
(* Stations are positive integers; their numeric order stands for the      *)
(* string order of the station names, which is what heapq falls back on    *)
(* when two queue entries have the same distance.  Lines are positive      *)
(* integers (truthy, like non-empty line names).  Python's None is -1.     *)
(***************************************************************************)
EXTENDS Integers, Sequences, FiniteSets, TLC

\* ---------------------------------------------------------------- bounds
\* the number of add_edge calls that build a network
MaxEdges == 3
\* the number of stations of a path handed to the trip classification
MaxPathLen == 3
\* the number of OD pairs of a batch
MaxBatch == 2

\* ------------------------------------------------------ program constants
None == -1
Infinity == 1000000
TransferBias == 10
DefaultPenalty == 900

\* the stations A, B, C of the networks that are enumerated
Stations == {1, 2, 3}
\* a station name that none of these networks contains
Absent == CHOOSE n \in 4..4 : TRUE
Lines == {1, 2}
Weights == {1, 20}
Penalties == {0, 5}

\* ------------------------------------------------------------ the network
\* nx.MultiGraph as Main.create_network builds it: a set of nodes and the
\* add_edge calls in order.  The key networkx gives a parallel edge is the
\* number of edges already present between the same two stations.
Edge(u, v, line, weight) == [u |-> u, v |-> v, line |-> line, weight |-> weight]

SamePair(e, f) == {e.u, e.v} = {f.u, f.v}

Joins(e, a, b) == {e.u, e.v} = {a, b}

EdgeKey(G, i) == Cardinality({j \in 1..(i - 1) : SamePair(G.edges[j], G.edges[i])})

\* G[a][b][k]: the index of the edge between a and b whose key is k
EdgeIndex(G, a, b, k) ==
    CHOOSE i \in 1..Len(G.edges) : Joins(G.edges[i], a, b) /\ EdgeKey(G, i) = k

HasEdge(G, a, b, k) ==
    \E i \in 1..Len(G.edges) : Joins(G.edges[i], a, b) /\ EdgeKey(G, i) = k

Neighbor(e, n) == IF e.u = n THEN e.v ELSE e.u

\* --------------------------------------------------------------- the router
\* dijkstra_weight counting every edge as one unit instead of its base cost
dijkstra_weight_NoBase(edge_attr, prev_line, transfer_penalty) ==
    LET changes == prev_line /= None /\ edge_attr.line /= prev_line
    IN  1 + (IF changes THEN transfer_penalty ELSE 0)
          + (IF changes THEN TransferBias ELSE 0)

\* dijkstra_weight with the test on the lines turned round: staying on the
\* line is what costs the penalty
dijkstra_weight_SameLine(edge_attr, prev_line, transfer_penalty) ==
    LET same == prev_line /= None /\ edge_attr.line = prev_line
    IN  edge_attr.weight + (IF same THEN transfer_penalty ELSE 0)
                         + (IF same THEN TransferBias ELSE 0)

\* dijkstra_weight: the relaxation cost of an edge given the arriving line
dijkstra_weight(edge_attr, prev_line, transfer_penalty) ==
    LET current_line == edge_attr.line
        base_weight == edge_attr.weight
        changes == prev_line /= None /\ current_line /= prev_line
        transfer_cost == IF changes THEN transfer_penalty ELSE 0
        bias_for_transfer == IF changes THEN TransferBias ELSE 0
    IN  base_weight + transfer_cost + bias_for_transfer

\* the tables of custom_fastest_path before its loop
InitTables(G, source) ==
    [distances |-> [n \in G.nodes \cup {source} |-> IF n = source THEN 0 ELSE Infinity],
     previous |-> [n \in G.nodes |-> None],
     previous_lines |-> [n \in G.nodes |-> None],
     previous_edge_keys |-> [n \in G.nodes |-> None],
     visited |-> {},
     pq |-> {<<0, source, None>>},
     ctl |-> "loop"]

\* tuple order of the queue entries (distance, node, previous_line)
EntryLess(x, y) ==
    \/ x[1] < y[1]
    \/ x[1] = y[1] /\ x[2] < y[2]
    \/ x[1] = y[1] /\ x[2] = y[2] /\ x[3] < y[3]

\* heapq.heappop: the least entry
HeapMin(pq) == CHOOSE x \in pq : \A y \in pq \ {x} : EntryLess(x, y)

\* RelaxEdge with a line cache of its own: the line of a station is written
\* once, when the station is first reached, and a later improvement leaves it
RelaxEdge_StaleLine(G, t, i, current_distance, current_node, prev_line, transfer_penalty) ==
    LET edge_data == G.edges[i]
        neighbor == Neighbor(edge_data, current_node)
        weight == dijkstra_weight(edge_data, prev_line, transfer_penalty)
        distance == current_distance + weight
    IN  IF distance < t.distances[neighbor]
        THEN [t EXCEPT !.distances[neighbor] = distance,
                       !.previous[neighbor] = current_node,
                       !.previous_lines[neighbor] =
                           IF @ = None THEN edge_data.line ELSE @,
                       !.previous_edge_keys[neighbor] = EdgeKey(G, i),
                       !.pq = @ \cup {<<distance, neighbor, edge_data.line>>}]
        ELSE t

\* one relaxation: the body of the inner for-loop for edge i out of current_node
RelaxEdge(G, t, i, current_distance, current_node, prev_line, transfer_penalty) ==
    LET edge_data == G.edges[i]
        neighbor == Neighbor(edge_data, current_node)
        weight == dijkstra_weight(edge_data, prev_line, transfer_penalty)
        distance == current_distance + weight
    IN  IF distance < t.distances[neighbor]
        THEN [t EXCEPT !.distances[neighbor] = distance,
                       !.previous[neighbor] = current_node,
                       !.previous_lines[neighbor] = edge_data.line,
                       !.previous_edge_keys[neighbor] = EdgeKey(G, i),
                       !.pq = @ \cup {<<distance, neighbor, edge_data.line>>}]
        ELSE t

\* the two nested for-loops over G[current_node]: every edge at current_node,
\* parallel edges in key order.  The order in which different neighbours are
\* taken does not matter, since a relaxation only touches its own neighbour.
RECURSIVE RelaxAll(_, _, _, _, _, _, _)
RelaxAll(G, t, i, current_distance, current_node, prev_line, transfer_penalty) ==
    IF i > Len(G.edges) THEN t
    ELSE LET e == G.edges[i]
             t2 == IF current_node \in {e.u, e.v}
                   THEN RelaxEdge(G, t, i, current_distance, current_node, prev_line,
                                  transfer_penalty)
                   ELSE t
         IN  RelaxAll(G, t2, i + 1, current_distance, current_node, prev_line,
                      transfer_penalty)

\* one iteration of the while-loop of custom_fastest_path; ctl says how the
\* loop goes on: "loop", "break" (target popped), "KeyError" (G[current_node]
\* of a station the network does not have)
LoopIteration(G, target, transfer_penalty, t) ==
    LET top == HeapMin(t.pq)
        current_distance == top[1]
        current_node == top[2]
        prev_line == top[3]
        popped == [t EXCEPT !.pq = @ \ {top}]
    IN  IF current_node = target THEN [popped EXCEPT !.ctl = "break"]
        ELSE IF current_node \in t.visited THEN popped
        ELSE IF current_node \notin G.nodes
             THEN [popped EXCEPT !.visited = @ \cup {current_node}, !.ctl = "KeyError"]
        ELSE RelaxAll(G, [popped EXCEPT !.visited = @ \cup {current_node}], 1,
                      current_distance, current_node, prev_line, transfer_penalty)

\* WalkBack with the loop test on previous[current]: the station without a
\* parent is left out
RECURSIVE WalkBack_SkipOrigin(_, _, _, _)
WalkBack_SkipOrigin(t, current, path, edge_keys) ==
    IF current \notin DOMAIN t.previous
    THEN [raised |-> "KeyError", path |-> <<>>, edge_keys |-> <<>>]
    ELSE IF t.previous[current] = None
    THEN [raised |-> "no", path |-> path, edge_keys |-> edge_keys]
    ELSE WalkBack_SkipOrigin(t, t.previous[current], <<current>> \o path,
                             <<t.previous_edge_keys[current]>> \o edge_keys)

\* path reconstruction: follow previous from target; the lists are built
\* back to front, so prepending here is append-then-reverse there
RECURSIVE WalkBack(_, _, _, _)
WalkBack(t, current, path, edge_keys) ==
    IF current = None THEN [raised |-> "no", path |-> path, edge_keys |-> edge_keys]
    ELSE IF current \notin DOMAIN t.previous
         THEN [raised |-> "KeyError", path |-> <<>>, edge_keys |-> <<>>]
    ELSE WalkBack(t, t.previous[current], <<current>> \o path,
                  IF t.previous[current] /= None
                  THEN <<t.previous_edge_keys[current]>> \o edge_keys
                  ELSE edge_keys)

\* AfterLoop taking a station without a parent for an unreachable one
AfterLoop_NoParentNoPath(t, target) ==
    IF target \notin DOMAIN t.distances
    THEN [raised |-> "KeyError", path |-> <<>>, edge_keys |-> <<>>]
    ELSE IF t.distances[target] = Infinity \/ t.previous[target] = None
    THEN [raised |-> "NetworkXNoPath", path |-> <<>>, edge_keys |-> <<>>]
    ELSE WalkBack(t, target, <<>>, <<>>)

\* AfterLoop reading distances.get(target, infinity)
AfterLoop_GetDefault(t, target) ==
    IF target \notin DOMAIN t.distances \/ t.distances[target] = Infinity
    THEN [raised |-> "NetworkXNoPath", path |-> <<>>, edge_keys |-> <<>>]
    ELSE WalkBack(t, target, <<>>, <<>>)

\* what follows the loop of custom_fastest_path: the unreachable test and the
\* reconstruction
AfterLoop(t, target) ==
    IF target \notin DOMAIN t.distances
    THEN [raised |-> "KeyError", path |-> <<>>, edge_keys |-> <<>>]
    ELSE IF t.distances[target] = Infinity
    THEN [raised |-> "NetworkXNoPath", path |-> <<>>, edge_keys |-> <<>>]
    ELSE WalkBack(t, target, <<>>, <<>>)


\* custom_fastest_path as a whole: the loop run to its end, then AfterLoop
RECURSIVE RunLoop(_, _, _, _)
RunLoop(G, target, transfer_penalty, t) ==
    IF t.ctl /= "loop" \/ t.pq = {} THEN t
    ELSE RunLoop(G, target, transfer_penalty, LoopIteration(G, target, transfer_penalty, t))

custom_fastest_path(G, source, target, transfer_penalty) ==
    LET t == RunLoop(G, target, transfer_penalty, InitTables(G, source))
    IN  IF t.ctl = "KeyError"
        THEN [raised |-> "KeyError", path |-> <<>>, edge_keys |-> <<>>, previous_lines |-> <<>>]
        ELSE LET r == AfterLoop(t, target)
             IN  [raised |-> r.raised, path |-> r.path, edge_keys |-> r.edge_keys,
                  previous_lines |-> t.previous_lines]

\* ----------------------------------------------------------- the summarizer
Segment(from_station, to_station, line, time) ==
    [from_station |-> from_station, to_station |-> to_station, line |-> line, time |-> time]

SetLast(segments, field, value) ==
    [segments EXCEPT ![Len(segments)] = [@ EXCEPT ![field] = value]]

InitSummary ==
    [lines_used |-> <<>>, current_line |-> None, transfers |-> <<>>, total_time |-> 0,
     segments |-> <<>>]

\* SummarizeHop charging the relaxation's bias along with the penalty
SummarizeHop_WithBias(G, path, line_changes, edge_keys, transfer_penalty, r, i) ==
    LET edge_data == G.edges[EdgeIndex(G, path[i], path[i + 1], edge_keys[i])]
        segment_time == edge_data.weight
        r1 == [r EXCEPT !.total_time = @ + segment_time]
        changed == line_changes[path[i + 1]] /= r1.current_line
        r2 == IF changed /\ r1.current_line /= None
              THEN [r1 EXCEPT !.transfers = Append(@, path[i]),
                              !.total_time = @ + transfer_penalty + TransferBias,
                              !.segments = IF @ /= <<>> THEN SetLast(@, "to_station", path[i])
                                           ELSE @]
              ELSE r1
        r3 == IF changed
              THEN [r2 EXCEPT !.current_line = line_changes[path[i + 1]],
                              !.lines_used = Append(@, line_changes[path[i + 1]]),
                              !.segments = Append(@, Segment(path[i], None,
                                                  line_changes[path[i + 1]], 0))]
              ELSE r2
    IN  IF r3.segments /= <<>>
        THEN [r3 EXCEPT !.segments = SetLast(@, "time",
                                             @[Len(@)].time + segment_time)]
        ELSE r3

\* the body of the for-loop over the hops of the path, for hop i (1-based)
SummarizeHop(G, path, line_changes, edge_keys, transfer_penalty, r, i) ==
    LET edge_data == G.edges[EdgeIndex(G, path[i], path[i + 1], edge_keys[i])]
        segment_time == edge_data.weight
        r1 == [r EXCEPT !.total_time = @ + segment_time]
        changed == line_changes[path[i + 1]] /= r1.current_line
        r2 == IF changed /\ r1.current_line /= None
              THEN [r1 EXCEPT !.transfers = Append(@, path[i]),
                              !.total_time = @ + transfer_penalty,
                              !.segments = IF @ /= <<>> THEN SetLast(@, "to_station", path[i])
                                           ELSE @]
              ELSE r1
        r3 == IF changed
              THEN [r2 EXCEPT !.current_line = line_changes[path[i + 1]],
                              !.lines_used = Append(@, line_changes[path[i + 1]]),
                              !.segments = Append(@, Segment(path[i], None,
                                                  line_changes[path[i + 1]], 0))]
              ELSE r2
    IN  IF r3.segments /= <<>>
        THEN [r3 EXCEPT !.segments = SetLast(@, "time",
                                             @[Len(@)].time + segment_time)]
        ELSE r3

RECURSIVE SummarizeFrom(_, _, _, _, _, _, _)
SummarizeFrom(G, path, line_changes, edge_keys, transfer_penalty, r, i) ==
    IF i > Len(path) - 1 THEN r
    ELSE SummarizeFrom(G, path, line_changes, edge_keys, transfer_penalty,
                       SummarizeHop(G, path, line_changes, edge_keys, transfer_penalty, r, i),
                       i + 1)

NoRoute ==
    [path |-> <<>>, lines_used |-> <<>>, transfers |-> <<>>, num_transfers |-> 0,
     total_stations |-> 0, total_time |-> 0, travel_time |-> 0, transfer_time |-> 0,
     segments |-> <<>>]

\* Summarize without the closing of the final segment
Summarize_NoClose(G, path, line_changes, edge_keys, transfer_penalty) ==
    LET r == SummarizeFrom(G, path, line_changes, edge_keys, transfer_penalty, InitSummary, 1)
    IN  [path |-> path,
         lines_used |-> r.lines_used,
         transfers |-> r.transfers,
         num_transfers |-> Len(r.transfers),
         total_stations |-> Len(path),
         total_time |-> r.total_time,
         travel_time |-> r.total_time - (Len(r.transfers) * transfer_penalty),
         transfer_time |-> Len(r.transfers) * transfer_penalty,
         segments |-> r.segments]

\* the rest of find_fastest_route once custom_fastest_path has returned
Summarize(G, path, line_changes, edge_keys, transfer_penalty) ==
    LET r == SummarizeFrom(G, path, line_changes, edge_keys, transfer_penalty, InitSummary, 1)
        segments == IF r.segments /= <<>>
                    THEN SetLast(r.segments, "to_station", path[Len(path)])
                    ELSE r.segments
    IN  [path |-> path,
         lines_used |-> r.lines_used,
         transfers |-> r.transfers,
         num_transfers |-> Len(r.transfers),
         total_stations |-> Len(path),
         total_time |-> r.total_time,
         travel_time |-> r.total_time - (Len(r.transfers) * transfer_penalty),
         transfer_time |-> Len(r.transfers) * transfer_penalty,
         segments |-> segments]

\* find_fastest_route as a function of its arguments: outcome is "Route",
\* "None" (NetworkXNoPath caught, None returned) or "KeyError" (propagates)
find_fastest_route(G, source, target, transfer_penalty) ==
    LET c == custom_fastest_path(G, source, target, transfer_penalty)
    IN  IF c.raised = "NetworkXNoPath" THEN [outcome |-> "None", route |-> NoRoute]
        ELSE IF c.raised = "KeyError" THEN [outcome |-> "KeyError", route |-> NoRoute]
        ELSE [outcome |-> "Route",
              route |-> Summarize(G, c.path, c.previous_lines, c.edge_keys, transfer_penalty)]


\* ------------------------------------------------- the trip classification
NoType == "None"

get_path_type_AllClosed(o, d, closed, p) ==
    IF o \in closed /\ d \notin closed THEN "Origin trip"
    ELSE IF o \notin closed /\ d \in closed THEN "Destination trip"
    ELSE IF o \in closed /\ d \in closed THEN "Internal trip"
    ELSE IF \A i \in 1..Len(p) : p[i] \in closed THEN "Passing trip"
    ELSE NoType

get_path_type(o, d, closed, p) ==
    IF o \in closed /\ d \notin closed THEN "Origin trip"
    ELSE IF o \notin closed /\ d \in closed THEN "Destination trip"
    ELSE IF o \in closed /\ d \in closed THEN "Internal trip"
    ELSE IF \E i \in 1..Len(p) : p[i] \in closed THEN "Passing trip"
    ELSE NoType

\* path[::-1]
Reversed(p) == [i \in 1..Len(p) |-> p[Len(p) + 1 - i]]

\* for station in path: if station == ib: return ib elif station == ob:
\* return ob; None when the loop runs out
RECURSIVE ScanBoundary(_, _, _, _)
ScanBoundary(p, i, ib, ob) ==
    IF i > Len(p) THEN None
    ELSE IF p[i] = ib THEN ib
    ELSE IF p[i] = ob THEN ob
    ELSE ScanBoundary(p, i + 1, ib, ob)

\* for station in path: if station in closed_stations: return station
RECURSIVE ScanClosed(_, _, _)
ScanClosed(p, i, closed) ==
    IF i > Len(p) THEN None
    ELSE IF p[i] \in closed THEN p[i]
    ELSE ScanClosed(p, i + 1, closed)

calculate_origin_station(ptype, o, ib, ob, p) ==
    IF ptype = "Origin trip" THEN o
    ELSE IF ptype = "Destination trip" THEN ScanBoundary(p, 1, ib, ob)
    ELSE IF ptype = "Internal trip" THEN o
    ELSE IF ptype = "Passing trip" THEN ScanBoundary(p, 1, ib, ob)
    ELSE None

calculate_destination_station_Forward(ptype, d, ib, ob, p) ==
    IF ptype = "Destination trip" THEN d
    ELSE IF ptype = "Origin trip" THEN ScanBoundary(p, 1, ib, ob)
    ELSE IF ptype = "Internal trip" THEN d
    ELSE IF ptype = "Passing trip" THEN ScanBoundary(p, 1, ib, ob)
    ELSE None

calculate_destination_station(ptype, d, ib, ob, p) ==
    IF ptype = "Destination trip" THEN d
    ELSE IF ptype = "Origin trip" THEN ScanBoundary(Reversed(p), 1, ib, ob)
    ELSE IF ptype = "Internal trip" THEN d
    ELSE IF ptype = "Passing trip" THEN ScanBoundary(Reversed(p), 1, ib, ob)
    ELSE None

origin_station_if_none(new_o, p, closed) ==
    IF new_o = None /\ ScanClosed(p, 1, closed) /= None
    THEN ScanClosed(p, 1, closed)
    ELSE new_o

destination_station_if_none(new_d, p, closed) ==
    IF new_d = None /\ ScanClosed(Reversed(p), 1, closed) /= None
    THEN ScanClosed(Reversed(p), 1, closed)
    ELSE new_d

\* ------------------------------------------------------------- the inputs
PairRank(e) == e.u * 10 + e.v

EdgeChoices ==
    {Edge(u, v, l, w) : u \in Stations, v \in Stations, l \in Lines, w \in Weights}

\* The add_edge calls of a network, at most MaxEdges of them, between distinct
\* stations.  They are listed pair by pair: only the order of the parallel
\* edges of one pair (their keys) is visible to the router.
EdgeLists ==
    UNION {{es \in [1..k -> {e \in EdgeChoices : e.u < e.v}] :
               \A i \in 1..(k - 1) : PairRank(es[i]) <= PairRank(es[i + 1])} :
           k \in 0..MaxEdges}

Networks == {[nodes |-> Stations, edges |-> es] : es \in EdgeLists}

\* Stations A..F as 1..6: A-B-C on line 1, C-D-E on line 2, 100 a hop, and F
\* with no segment at all
ScenarioNetwork ==
    [nodes |-> 1..6,
     edges |-> <<Edge(1, 2, 1, 100), Edge(2, 3, 1, 100), Edge(3, 4, 2, 100),
                 Edge(4, 5, 2, 100)>>]

Query(G, o, d, p) == [G |-> G, origin |-> o, destination |-> d, transfer_penalty |-> p]

Queries ==
    {Query(g, o, d, p) : g \in Networks, o \in Stations \cup {Absent},
                         d \in Stations \cup {Absent}, p \in Penalties}
    \cup {Query(ScenarioNetwork, 1, d, 50) : d \in {5, 6}}

\* ---------------------------------------------------------------- the state
VARIABLES G, origin, destination, transfer_penalty,
          distances, previous, previous_lines, previous_edge_keys, visited, pq,
          path, edge_keys, outcome, route, pc,
          raised_penalty, raised_outcome, raised_route,
          closed_stations, ib_boubndary_station, ob_boundary_station,
          path_type, new_origin, new_destination,
          od_pairs_df

queryVars == <<G, origin, destination, transfer_penalty>>
tableVars == <<distances, previous, previous_lines, previous_edge_keys, visited, pq>>
resultVars == <<path, edge_keys, outcome, route>>
\* the same query asked again with a larger penalty
raisedVars == <<raised_penalty, raised_outcome, raised_route>>
\* the inputs and results of the trip classification
zoneVars == <<closed_stations, ib_boubndary_station, ob_boundary_station>>
tripVars == <<path_type, new_origin, new_destination>>
\* the table of OD pairs of the batch
batchVars == <<od_pairs_df>>
vars == <<queryVars, tableVars, resultVars, pc, raisedVars, zoneVars, tripVars, batchVars>>

NoTables ==
    /\ distances = <<>> /\ previous = <<>> /\ previous_lines = <<>>
    /\ previous_edge_keys = <<>> /\ visited = {} /\ pq = {}

NoResult == path = <<>> /\ edge_keys = <<>> /\ outcome = "pending" /\ route = NoRoute

NoRaised == raised_penalty = None /\ raised_outcome = "pending" /\ raised_route = NoRoute

NoZone ==
    closed_stations = {} /\ ib_boubndary_station = None /\ ob_boundary_station = None

NoTrip == path_type = "pending" /\ new_origin = None /\ new_destination = None

NoBatch == od_pairs_df = <<>>

Tables ==
    [distances |-> distances, previous |-> previous, previous_lines |-> previous_lines,
     previous_edge_keys |-> previous_edge_keys, visited |-> visited, pq |-> pq,
     ctl |-> "loop"]

SetTables(t) ==
    /\ distances' = t.distances
    /\ previous' = t.previous
    /\ previous_lines' = t.previous_lines
    /\ previous_edge_keys' = t.previous_edge_keys
    /\ visited' = t.visited
    /\ pq' = t.pq

\* find_fastest_route called: custom_fastest_path has set up its tables and
\* stands at the head of its while-loop
Init ==
    \E q \in Queries :
        /\ G = q.G
        /\ origin = q.origin
        /\ destination = q.destination
        /\ transfer_penalty = q.transfer_penalty
        /\ LET t == InitTables(q.G, q.origin)
           IN  /\ distances = t.distances
               /\ previous = t.previous
               /\ previous_lines = t.previous_lines
               /\ previous_edge_keys = t.previous_edge_keys
               /\ visited = t.visited
               /\ pq = t.pq
        /\ NoResult
        /\ pc = "loop"
        /\ NoRaised /\ NoZone /\ NoTrip /\ NoBatch

\* a loop iteration that pops the target: break
PopTarget ==
    /\ pc = "loop" /\ pq /= {}
    /\ HeapMin(pq)[2] = destination
    /\ SetTables(LoopIteration(G, destination, transfer_penalty, Tables))
    /\ pc' = "after_loop"
    /\ UNCHANGED <<queryVars, resultVars, raisedVars, zoneVars, tripVars, batchVars>>

\* a loop iteration that pops a station already visited: continue
PopVisited ==
    /\ pc = "loop" /\ pq /= {}
    /\ HeapMin(pq)[2] /= destination
    /\ HeapMin(pq)[2] \in visited
    /\ SetTables(LoopIteration(G, destination, transfer_penalty, Tables))
    /\ UNCHANGED <<queryVars, resultVars, pc, raisedVars, zoneVars, tripVars, batchVars>>

\* a loop iteration that visits a station and relaxes every edge out of it;
\* G[current_node] raises KeyError when the network has no such station
PopExpand ==
    /\ pc = "loop" /\ pq /= {}
    /\ HeapMin(pq)[2] /= destination
    /\ HeapMin(pq)[2] \notin visited
    /\ LET t == LoopIteration(G, destination, transfer_penalty, Tables)
       IN  /\ SetTables(t)
           /\ IF t.ctl = "KeyError"
              THEN outcome' = "KeyError" /\ pc' = "done"
              ELSE outcome' = outcome /\ pc' = pc
    /\ UNCHANGED <<queryVars, path, edge_keys, route, raisedVars, zoneVars, tripVars, batchVars>>

\* the queue ran empty: the while-loop ends
QueueEmpty ==
    /\ pc = "loop" /\ pq = {}
    /\ pc' = "after_loop"
    /\ UNCHANGED <<queryVars, tableVars, resultVars, raisedVars, zoneVars, tripVars, batchVars>>

\* the unreachable test and the path reconstruction; NetworkXNoPath is caught
\* by find_fastest_route, which returns None; a KeyError is not caught
Reconstruct ==
    /\ pc = "after_loop"
    /\ LET r == AfterLoop(Tables, destination)
       IN  /\ path' = r.path
           /\ edge_keys' = r.edge_keys
           /\ outcome' = CASE r.raised = "NetworkXNoPath" -> "None"
                           [] r.raised = "KeyError" -> "KeyError"
                           [] OTHER -> outcome
           /\ pc' = IF r.raised = "no" THEN "summarize" ELSE "done"
    /\ UNCHANGED <<queryVars, tableVars, route, raisedVars, zoneVars, tripVars, batchVars>>

\* the summarizer: the returned dict
SummarizeRoute ==
    /\ pc = "summarize"
    /\ route' = Summarize(G, path, previous_lines, edge_keys, transfer_penalty)
    /\ outcome' = "Route"
    /\ pc' = "done"
    /\ UNCHANGED <<queryVars, tableVars, path, edge_keys, raisedVars, zoneVars, tripVars, batchVars>>

Next ==
    \/ PopTarget
    \/ PopVisited
    \/ PopExpand
    \/ QueueEmpty
    \/ Reconstruct
    \/ SummarizeRoute

Spec == Init /\ [][Next]_vars

\* ------------------------------------------------- classifying one trip
Paths == UNION {[1..k -> Stations] : k \in 0..MaxPathLen}

\* the closed stations selected, and the two boundary stations, which the
\* select boxes take from the closed stations (None when there is none)
Zones ==
    {<<c, ib, ob>> : c \in SUBSET Stations, ib \in Stations \cup {None},
                     ob \in Stations \cup {None}}

ZoneOk(z) ==
    IF z[1] = {} THEN z[2] = None /\ z[3] = None ELSE z[2] \in z[1] /\ z[3] \in z[1]

InitTrip ==
    \E o \in Stations, d \in Stations, p \in Paths, z \in {x \in Zones : ZoneOk(x)} :
        /\ origin = o
        /\ destination = d
        /\ path = p
        /\ closed_stations = z[1]
        /\ ib_boubndary_station = z[2]
        /\ ob_boundary_station = z[3]
        /\ NoTrip
        /\ G = [nodes |-> Stations, edges |-> <<>>]
        /\ transfer_penalty = DefaultPenalty
        /\ NoTables
        /\ edge_keys = <<>> /\ outcome = "pending" /\ route = NoRoute
        /\ pc = "path_type"
        /\ NoRaised /\ NoBatch

\* Main.py: the path_type column
Classify ==
    /\ pc = "path_type"
    /\ path_type' = get_path_type(origin, destination, closed_stations, path)
    /\ pc' = "new_origin"
    /\ UNCHANGED <<queryVars, tableVars, resultVars, raisedVars, zoneVars, new_origin,
                   new_destination, batchVars>>

\* Main.py: the new_origin column
RemapOrigin ==
    /\ pc = "new_origin"
    /\ new_origin' = calculate_origin_station(path_type, origin, ib_boubndary_station,
                                              ob_boundary_station, path)
    /\ pc' = "new_destination"
    /\ UNCHANGED <<queryVars, tableVars, resultVars, raisedVars, zoneVars, path_type,
                   new_destination, batchVars>>

\* Main.py: the new_destination column
RemapDestination ==
    /\ pc = "new_destination"
    /\ new_destination' = calculate_destination_station(path_type, destination,
                              ib_boubndary_station, ob_boundary_station, path)
    /\ pc' = "origin_if_none"
    /\ UNCHANGED <<queryVars, tableVars, resultVars, raisedVars, zoneVars, path_type,
                   new_origin, batchVars>>

\* Main.py: new_origin again, through origin_station_if_none
OriginIfNone ==
    /\ pc = "origin_if_none"
    /\ new_origin' = origin_station_if_none(new_origin, path, closed_stations)
    /\ pc' = "destination_if_none"
    /\ UNCHANGED <<queryVars, tableVars, resultVars, raisedVars, zoneVars, path_type,
                   new_destination, batchVars>>

\* Main.py: new_destination again, through destination_station_if_none
DestinationIfNone ==
    /\ pc = "destination_if_none"
    /\ new_destination' = destination_station_if_none(new_destination, path, closed_stations)
    /\ pc' = "done"
    /\ UNCHANGED <<queryVars, tableVars, resultVars, raisedVars, zoneVars, path_type,
                   new_origin, batchVars>>

NextTrip ==
    \/ Classify
    \/ RemapOrigin
    \/ RemapDestination
    \/ OriginIfNone
    \/ DestinationIfNone

SpecTrip == InitTrip /\ [][NextTrip]_vars

\* ------------------------------------------------ the batch of Main.main
\* the OD pairs left after the rows with equal or unknown stations are dropped
BatchPairs == {<<o, d>> : o \in {1, 2}, d \in {4, 5, 6}}

Batches == UNION {[1..k -> BatchPairs] : k \in 0..MaxBatch}

BatchZones ==
    {<<c, ib, ob>> : c \in SUBSET {2, 3, 4}, ib \in {2, 3, 4, None}, ob \in {2, 3, 4, None}}

Row(o, d) ==
    [tap_on_tsn_name |-> o, tap_off_tsn_name |-> d,
     fastest_route |-> [outcome |-> "pending", route |-> NoRoute],
     path_type |-> "pending", new_origin |-> None, new_destination |-> None,
     directions_path |-> <<>>]

\* sum(station in x['path'] for station in selected_closed_stations) >= 2
AffectedOD(row, closed) ==
    Cardinality({c \in closed : \E i \in 1..Len(row.fastest_route.route.path) :
                                     row.fastest_route.route.path[i] = c}) >= 2

\* od_pairs_df[od_pairs_df['affected_OD'] == True]: the affected rows, in order
RECURSIVE AffectedRows(_, _, _)
AffectedRows(df, i, closed) ==
    IF i > Len(df) THEN <<>>
    ELSE (IF AffectedOD(df[i], closed) THEN <<df[i]>> ELSE <<>>)
         \o AffectedRows(df, i + 1, closed)

InitBatch ==
    \E b \in Batches, z \in {x \in BatchZones : ZoneOk(x)} :
        /\ od_pairs_df = [i \in 1..Len(b) |-> Row(b[i][1], b[i][2])]
        /\ closed_stations = z[1]
        /\ ib_boubndary_station = z[2]
        /\ ob_boundary_station = z[3]
        /\ G = ScenarioNetwork
        /\ transfer_penalty = DefaultPenalty
        /\ origin = None /\ destination = None
        /\ NoTables /\ NoResult /\ NoRaised /\ NoTrip
        /\ pc = "fastest_route"

\* the fastest_route column: find_fastest_route for every row
ComputeRoutes ==
    /\ pc = "fastest_route"
    /\ od_pairs_df' =
          [i \in 1..Len(od_pairs_df) |->
              [od_pairs_df[i] EXCEPT !.fastest_route =
                  find_fastest_route(G, od_pairs_df[i].tap_on_tsn_name,
                                     od_pairs_df[i].tap_off_tsn_name, transfer_penalty)]]
    /\ pc' = "affected_OD"
    /\ UNCHANGED <<queryVars, tableVars, resultVars, raisedVars, zoneVars, tripVars>>

\* the affected_OD column and the filter on it.  x['path'] of a row whose
\* fastest_route is None raises TypeError as soon as a closed station is
\* tested against it
FlagAffected ==
    /\ pc = "affected_OD"
    /\ IF closed_stations /= {}
          /\ \E i \in 1..Len(od_pairs_df) : od_pairs_df[i].fastest_route.outcome = "None"
       THEN pc' = "TypeError" /\ od_pairs_df' = od_pairs_df
       ELSE /\ pc' = "path_type"
            /\ od_pairs_df' = AffectedRows(od_pairs_df, 1, closed_stations)
    /\ UNCHANGED <<queryVars, tableVars, resultVars, raisedVars, zoneVars, tripVars>>

\* the path_type column
ClassifyRows ==
    /\ pc = "path_type"
    /\ od_pairs_df' =
          [i \in 1..Len(od_pairs_df) |->
              [od_pairs_df[i] EXCEPT !.path_type =
                  get_path_type(od_pairs_df[i].tap_on_tsn_name,
                                od_pairs_df[i].tap_off_tsn_name, closed_stations,
                                od_pairs_df[i].fastest_route.route.path)]]
    /\ pc' = "new_origin"
    /\ UNCHANGED <<queryVars, tableVars, resultVars, raisedVars, zoneVars, tripVars>>

RemapRow(row, closed, ib, ob) ==
    LET p == row.fastest_route.route.path
    IN  [row EXCEPT
           !.new_origin = origin_station_if_none(
               calculate_origin_station(row.path_type, row.tap_on_tsn_name, ib, ob, p),
               p, closed),
           !.new_destination = destination_station_if_none(
               calculate_destination_station(row.path_type, row.tap_off_tsn_name, ib, ob, p),
               p, closed)]

\* the new_origin and new_destination columns, and their second pass
RemapRows ==
    /\ pc = "new_origin"
    /\ od_pairs_df' =
          [i \in 1..Len(od_pairs_df) |->
              RemapRow(od_pairs_df[i], closed_stations, ib_boubndary_station,
                       ob_boundary_station)]
    /\ pc' = "directions"
    /\ UNCHANGED <<queryVars, tableVars, resultVars, raisedVars, zoneVars, tripVars>>

\* the directions column: the route between the remapped stations, with the
\* default penalty, and its ['path']
RerouteRows ==
    /\ pc = "directions"
    /\ LET again == [i \in 1..Len(od_pairs_df) |->
                        find_fastest_route(G, od_pairs_df[i].new_origin,
                                           od_pairs_df[i].new_destination, DefaultPenalty)]
       IN  IF \E i \in 1..Len(od_pairs_df) : again[i].outcome = "KeyError"
           THEN pc' = "KeyError" /\ od_pairs_df' = od_pairs_df
           ELSE IF \E i \in 1..Len(od_pairs_df) : again[i].outcome = "None"
           THEN pc' = "TypeError" /\ od_pairs_df' = od_pairs_df
           ELSE /\ pc' = "done"
                /\ od_pairs_df' =
                      [i \in 1..Len(od_pairs_df) |->
                          [od_pairs_df[i] EXCEPT !.directions_path = again[i].route.path]]
    /\ UNCHANGED <<queryVars, tableVars, resultVars, raisedVars, zoneVars, tripVars>>

NextBatch ==
    \/ ComputeRoutes
    \/ FlagAffected
    \/ ClassifyRows
    \/ RemapRows
    \/ RerouteRows

SpecBatch == InitBatch /\ [][NextBatch]_vars

\* ------------------------------------------- one query under two penalties
\* A..E as 1..5: A-B on line 2 (1), B-C on line 1 (1), A-C on line 2 (20),
\* C-D on line 2 (1), A-D on line 1 (22), D-E on line 1 (1)
HubNetwork ==
    [nodes |-> 1..5,
     edges |-> <<Edge(1, 2, 2, 1), Edge(2, 3, 1, 1), Edge(1, 3, 2, 20),
                 Edge(3, 4, 2, 1), Edge(1, 4, 1, 22), Edge(4, 5, 1, 1)>>]

RaisedPenalties == {0, 5, 20}

RaisedQueries ==
    {<<Query(g, o, d, p1), p2>> :
         g \in Networks, o \in Stations, d \in Stations,
         p1 \in RaisedPenalties, p2 \in RaisedPenalties}
    \cup {<<Query(HubNetwork, 1, 5, 0), 100>>}

InitRaised ==
    \E q \in {x \in RaisedQueries : x[1].transfer_penalty <= x[2]} :
        /\ G = q[1].G
        /\ origin = q[1].origin
        /\ destination = q[1].destination
        /\ transfer_penalty = q[1].transfer_penalty
        /\ raised_penalty = q[2]
        /\ raised_outcome = "pending" /\ raised_route = NoRoute
        /\ NoTables /\ NoResult
        /\ pc = "first"
        /\ NoZone /\ NoTrip /\ NoBatch

\* find_fastest_route(G, origin, destination, transfer_penalty)
AskFirst ==
    /\ pc = "first"
    /\ LET r == find_fastest_route(G, origin, destination, transfer_penalty)
       IN  /\ outcome' = r.outcome
           /\ route' = r.route
           /\ path' = r.route.path
    /\ pc' = "second"
    /\ UNCHANGED <<queryVars, tableVars, edge_keys, raisedVars, zoneVars, tripVars, batchVars>>

\* find_fastest_route(G, origin, destination, raised_penalty)
AskRaised ==
    /\ pc = "second"
    /\ LET r == find_fastest_route(G, origin, destination, raised_penalty)
       IN  /\ raised_outcome' = r.outcome
           /\ raised_route' = r.route
    /\ pc' = "done"
    /\ UNCHANGED <<queryVars, tableVars, resultVars, raised_penalty, zoneVars, tripVars,
                   batchVars>>

NextRaised == AskFirst \/ AskRaised

SpecRaised == InitRaised /\ [][NextRaised]_vars


\* ------------------------------------------------- quantities of the claims
Min(S) == CHOOSE x \in S : \A y \in S : x <= y

LinesOf(net) == {net.edges[i].line : i \in 1..Len(net.edges)}

\* The least cost of a walk from o to d, every hop on a parallel edge of its
\* choice: base cost of each edge, plus p for every hop whose line differs
\* from the line of the hop before it.  Least fixed point over the labels
\* (station, line of the last hop).
Labels(net, o) == (net.nodes \cup {o}) \X (LinesOf(net) \cup {None})

WalkStep(net, o, p, D) ==
    [x \in Labels(net, o) |->
        Min({D[x]} \cup
            {D[<<Neighbor(net.edges[i], x[1]), k>>] + net.edges[i].weight
                 + (IF k /= None /\ k /= x[2] THEN p ELSE 0) :
             <<i, k>> \in {y \in (1..Len(net.edges)) \X (LinesOf(net) \cup {None}) :
                            /\ x[1] \in {net.edges[y[1]].u, net.edges[y[1]].v}
                            /\ net.edges[y[1]].line = x[2]
                            /\ D[<<Neighbor(net.edges[y[1]], x[1]), y[2]>>] < Infinity}})]

RECURSIVE WalkFix(_, _, _, _)
WalkFix(net, o, p, D) ==
    LET D2 == WalkStep(net, o, p, D)
    IN  IF D2 = D THEN D ELSE WalkFix(net, o, p, D2)

MinWalkCost(net, o, d, p) ==
    LET D == WalkFix(net, o, p,
                     [x \in Labels(net, o) |-> IF x = <<o, None>> THEN 0 ELSE Infinity])
    IN  Min({D[x] : x \in {y \in Labels(net, o) : y[1] = d}})

\* the edge recorded for hop i of the returned path
HopEdge(i) == G.edges[EdgeIndex(G, path[i], path[i + 1], edge_keys[i])]

RECURSIVE SumTo(_, _)
SumTo(f, n) == IF n = 0 THEN 0 ELSE f[n] + SumTo(f, n - 1)

Hops == 1..(Len(path) - 1)

\* the sum of the base costs of the recorded edges of the path
BaseCost == SumTo([i \in Hops |-> HopEdge(i).weight], Len(path) - 1)

\* the hops whose recorded edge is on another line than the hop before
LineChanges == {i \in Hops : i > 1 /\ HopEdge(i).line /= HopEdge(i - 1).line}

Returned == pc = "done" /\ outcome = "Route"

\* ------------------------------------------------------------------ claims

C2_TimeBreakdown ==
    Returned =>
        /\ route.total_time = route.travel_time + route.transfer_time
        /\ route.travel_time = BaseCost
        /\ route.transfer_time = route.num_transfers * transfer_penalty

\* the scenario A..E: one transfer at C, 400 + 50
C2_Witness ==
    /\ Returned
    /\ G = ScenarioNetwork /\ origin = 1 /\ destination = 5 /\ transfer_penalty = 50
    /\ route.path = <<1, 2, 3, 4, 5>>
    /\ route.num_transfers = 1
    /\ route.transfer_time = 50 /\ route.travel_time = 400 /\ route.total_time = 450

\* C3: the path custom_fastest_path returns has at least one station, starts
\* at origin, ends at destination, and each hop is the parallel edge whose key
\* was recorded when the hop's far end was last relaxed.
C3_PathJoinsEndpoints ==
    (pc = "summarize" \/ Returned) =>
        /\ Len(path) >= 1
        /\ path[1] = origin
        /\ path[Len(path)] = destination
        /\ Len(edge_keys) = Len(path) - 1
        /\ \A i \in Hops :
              /\ HasEdge(G, path[i], path[i + 1], edge_keys[i])
              /\ previous[path[i + 1]] = path[i]
              /\ previous_edge_keys[path[i + 1]] = edge_keys[i]
        /\ Returned => route.path = path /\ route.total_stations = Len(path)

\* a returned path that uses the second of two parallel edges
C3_Witness ==
    /\ Returned
    /\ Len(path) = 3
    /\ \E i \in Hops : edge_keys[i] = 1

\* C4: num_transfers is the length of transfers; consecutive segments are on
\* different lines and meet at the transfer station; the first segment starts
\* at origin and the last ends at destination; a path with a hop has
\* num_transfers + 1 segments (so num_transfers is the number of line changes
\* along the segments), a path without a hop has none.
C4_SegmentsAndTransfers ==
    Returned =>
        LET segs == route.segments
        IN  /\ route.num_transfers = Len(route.transfers)
            /\ \A k \in 1..(Len(segs) - 1) :
                  /\ segs[k].line /= segs[k + 1].line
                  /\ segs[k].to_station = segs[k + 1].from_station
                  /\ segs[k].to_station = route.transfers[k]
            /\ Len(path) >= 2 =>
                  /\ Len(segs) = route.num_transfers + 1
                  /\ segs[1].from_station = origin
                  /\ segs[Len(segs)].to_station = destination
            /\ Len(path) < 2 => segs = <<>> /\ route.num_transfers = 0

\* a route of two segments meeting at its one transfer station
C4_Witness ==
    /\ Returned
    /\ route.num_transfers = 1
    /\ Len(route.segments) = 2
    /\ route.segments[1].to_station = route.transfers[1]
    /\ route.segments[2].to_station = destination


\* the stations joined to o by a chain of segments of the network
RECURSIVE ReachFrom(_, _)
ReachFrom(net, S) ==
    LET T == S \cup {n \in net.nodes :
                        \E i \in 1..Len(net.edges), m \in S : Joins(net.edges[i], m, n)}
    IN  IF T = S THEN S ELSE ReachFrom(net, T)

Reachable(net, o, d) == d \in ReachFrom(net, {o})

\* C6: for two stations of the network the query ends with no-route exactly
\* when the destination is not reachable, with a route otherwise; and a query
\* from a station to itself ends with the route [origin], total_time 0, no
\* transfers and no segments.
C6_NoRouteIffUnreachable ==
    (pc = "done" /\ origin \in G.nodes /\ destination \in G.nodes) =>
        /\ outcome = "None" <=> ~Reachable(G, origin, destination)
        /\ outcome = "Route" <=> Reachable(G, origin, destination)
        /\ origin = destination =>
              /\ outcome = "Route"
              /\ route.path = <<origin>>
              /\ route.total_time = 0
              /\ route.transfers = <<>> /\ route.num_transfers = 0
              /\ route.segments = <<>>

\* the query from a station without segments to itself has returned
C6_Witness ==
    /\ Returned
    /\ origin = destination
    /\ G.edges /= <<>>
    /\ \A i \in 1..Len(G.edges) : origin \notin {G.edges[i].u, G.edges[i].v}
    /\ route.path = <<origin>>

\* C7: a query whose origin or destination is not a station of the network
\* ends with a KeyError, which find_fastest_route does not catch: never with a
\* route, never with no-route.
C7_UnknownStationFails ==
    (origin \notin G.nodes \/ destination \notin G.nodes) =>
        /\ outcome \in {"pending", "KeyError"}
        /\ pc = "done" => outcome = "KeyError"
        /\ pc /= "summarize"

\* only the destination is unknown: the loop ran over the origin's segments
\* before the failure
C7_Witness ==
    /\ pc = "done" /\ outcome = "KeyError"
    /\ origin \in G.nodes /\ destination \notin G.nodes
    /\ Cardinality(visited) >= 2


BothReturned == pc = "done" /\ outcome = "Route" /\ raised_outcome = "Route"

C5_TransfersNeverIncreaseAnywhere ==
    BothReturned => raised_route.num_transfers <= route.num_transfers


OnPath(S) == {i \in 1..Len(path) : path[i] \in S}

\* the first station of S met walking the path forward, and backward
FirstForward(S) == IF OnPath(S) = {} THEN None ELSE path[Min(OnPath(S))]

FirstBackward(S) ==
    IF OnPath(S) = {} THEN None ELSE path[CHOOSE i \in OnPath(S) : \A j \in OnPath(S) : j <= i]

Boundaries == {ib_boubndary_station, ob_boundary_station} \ {None}

\* the rule of the claim: the first boundary station met, or else the first
\* closed station met
ForwardRule ==
    IF OnPath(Boundaries) /= {} THEN FirstForward(Boundaries)
    ELSE FirstForward(closed_stations)

BackwardRule ==
    IF OnPath(Boundaries) /= {} THEN FirstBackward(Boundaries)
    ELSE FirstBackward(closed_stations)

\* the path of a trip runs from its origin to its destination
TripPath == path /= <<>> /\ path[1] = origin /\ path[Len(path)] = destination

Classified == pc \in {"new_origin", "new_destination", "origin_if_none",
                      "destination_if_none", "done"}

\* C8: the five outcomes of get_path_type and their conditions, which are
\* mutually exclusive and exhaustive.
C8_PathTypeCases ==
    Classified =>
        LET oc == origin \in closed_stations
            dc == destination \in closed_stations
            through == OnPath(closed_stations) /= {}
        IN  /\ path_type \in {"Origin trip", "Destination trip", "Internal trip",
                              "Passing trip", NoType}
            /\ path_type = "Origin trip" <=> (oc /\ ~dc)
            /\ path_type = "Destination trip" <=> (dc /\ ~oc)
            /\ path_type = "Internal trip" <=> (oc /\ dc)
            /\ path_type = "Passing trip" <=> (~oc /\ ~dc /\ through)
            /\ path_type = NoType <=> (~oc /\ ~dc /\ ~through)

\* the trip A to C through the closed station B is a passing trip
C8_Witness ==
    /\ Classified
    /\ path = <<1, 2, 3>> /\ origin = 1 /\ destination = 3
    /\ closed_stations = {2}
    /\ path_type = "Passing trip"

\* C9 as stated: for a passing, origin or destination trip the remapped origin
\* follows the forward rule and the remapped destination the backward rule.
C9_BothEndsFollowTheScan ==
    (pc = "done" /\ TripPath
        /\ path_type \in {"Passing trip", "Origin trip", "Destination trip"}) =>
        /\ new_origin = ForwardRule
        /\ new_destination = BackwardRule

\* C9 amended: the forward rule gives the remapped origin of a passing or
\* destination trip, the backward rule the remapped destination of a passing
\* or origin trip; an origin trip keeps its origin and a destination trip
\* keeps its destination.
C9_OpenEndsFollowTheScan ==
    (pc = "done" /\ TripPath) =>
        /\ path_type \in {"Passing trip", "Destination trip"} => new_origin = ForwardRule
        /\ path_type \in {"Passing trip", "Origin trip"} => new_destination = BackwardRule
        /\ path_type = "Origin trip" => new_origin = origin
        /\ path_type = "Destination trip" => new_destination = destination

\* an origin trip that starts on one boundary station and passes the other:
\* it keeps its origin, and its destination becomes the boundary met last
C9_Witness ==
    /\ pc = "done" /\ TripPath
    /\ path_type = "Origin trip"
    /\ new_origin = origin
    /\ new_destination = BackwardRule
    /\ new_destination \in Boundaries
    /\ new_destination /= FirstForward(Boundaries)


RowsWithoutRoute ==
    {i \in 1..Len(od_pairs_df) : od_pairs_df[i].fastest_route.outcome = "None"}

RowsWithRoute ==
    {i \in 1..Len(od_pairs_df) : od_pairs_df[i].fastest_route.outcome = "Route"}

\* C10: a pair without a route does not abort the batch, and the other pairs
\* of the batch keep their routes and get their classification.
C10_NoRouteIsIsolated ==
    RowsWithoutRoute /= {} =>
        /\ pc /= "TypeError"
        /\ pc = "done" => \A i \in RowsWithRoute : od_pairs_df[i].path_type /= "pending"

\* the stations custom_fastest_path has settled: popped and marked visited
Settled == visited \cap G.nodes

\* a step leaves the label of every settled station as it was
SettledKeepTheirLabels ==
    \A n \in Settled :
        /\ distances'[n] = distances[n]
        /\ previous'[n] = previous[n]
        /\ previous_lines'[n] = previous_lines[n]
        /\ previous_edge_keys'[n] = previous_edge_keys[n]

\* the edge the router recorded when it relaxed into the far end of hop i
RecordedEdge(i) ==
    G.edges[EdgeIndex(G, previous[path[i + 1]], path[i + 1],
                      previous_edge_keys[path[i + 1]])]

\* what the router added to the base cost of hop i when it relaxed it
Charged(i) == distances[path[i + 1]] - distances[path[i]] - RecordedEdge(i).weight

\* the stations the summary reports a transfer at
TransferStations == {route.transfers[k] : k \in 1..Len(route.transfers)}

\* the line the summary gives hop i: the entry of lines_used that follows the
\* transfers reported at the stations the path has passed before hop i ends
SummaryLine(i) ==
    route.lines_used[1 + Cardinality({k \in 2..i : path[k] \in TransferStations})]

\* C11: a settled station keeps its distance, parent, line and edge key in
\* every later step; and for every returned route the summary gives each hop
\* the line of the edge recorded when the hop was relaxed, reports a transfer
\* at a station exactly when the router charged penalty + 10 on the hop that
\* leaves it, and the router's distance to the destination is
\* total_time + 10 * num_transfers.
C11_SummaryAgreesWithRouter ==
    /\ [][SettledKeepTheirLabels]_vars
    /\ [](Returned =>
            /\ \A i \in Hops :
                  /\ previous[path[i + 1]] = path[i]
                  /\ SummaryLine(i) = RecordedEdge(i).line
                  /\ Charged(i) \in {0, transfer_penalty + TransferBias}
                  /\ path[i] \in TransferStations <=> Charged(i) /= 0
            /\ route.num_transfers = Cardinality({i \in Hops : Charged(i) /= 0})
            /\ distances[destination]
                 = route.total_time + TransferBias * route.num_transfers)

\* a returned route of two hops with a transfer at its middle station, which
\* was settled after its first label had been replaced by a better one (the
\* entry of the replaced label is still in the queue)
C11_Witness ==
    /\ Returned
    /\ Len(path) = 3
    /\ route.transfers = <<path[2]>>
    /\ path[2] \in Settled
    /\ \E x \in pq : x[2] = path[2] /\ x[1] > distances[path[2]]
                     /\ x[3] /= previous_lines[path[2]]

====
